---- MODULE Spec2Model ----
(***************************************************************************)
(* Modal interaction collector of serenity                                 *)
(* (src/src/collector/modal_interaction_collector.rs).                     *)
(*                                                                         *)
(* A builder (ModalInteractionCollectorBuilder or CollectModalInteraction) *)
(* stages FilterOptions and an optional Sleep.  Its first poll creates a   *)
(* ModalInteractionFilter (the producer side, held by the shard runner)    *)
(* and a ModalInteractionCollector (the consumer side) over one unbounded  *)
(* tokio mpsc channel, and registers the filter with the shard.            *)
(***************************************************************************)
EXTENDS Integers, Sequences, FiniteSets, TLC

(* ------------------------------------------------------------------ *)
(* Bounds of the model                                                *)
(* ------------------------------------------------------------------ *)

\* Number of interactions the shard dispatches to the filter in one run.
MaxEvents == 3

\* Largest value given to filter_limit / collect_limit (0 is included).
MaxLimit == 2

\* Number of interactions dispatched in one run of SpecMatch.
MaxMatchEvents == 1

(* ------------------------------------------------------------------ *)
(* Option<T>, interactions, FilterOptions                             *)
(* ------------------------------------------------------------------ *)

\* Option::None and Option::Some(v)
None == << >>
Some(v) == << v >>

\* A ModalSubmitInteraction, reduced to the fields the filter reads.
\* guild_id and message are Option<_> in the source; data stands for the
\* payload the caller's predicate looks at.
Interaction(i, g, m, c, u, d) ==
    [id |-> i, guild_id |-> g, message |-> m, channel_id |-> c, user |-> u, data |-> d]

X == Interaction("X", Some(1), Some(1), 1, 42, TRUE)
Y == Interaction("Y", None, Some(1), 1, 7, TRUE)
Z == Interaction("Z", Some(1), None, 2, 42, FALSE)
W == Interaction("W", Some(2), Some(2), 1, 42, TRUE)

\* The interactions dispatched under Spec.
Events == {X, Y, Z, W}

\* The interactions dispatched under SpecMatch: every combination of fields.
AllEvents ==
    { Interaction("E", g, m, c, u, d) :
        g \in {None, Some(1), Some(2)}, m \in {None, Some(1), Some(2)},
        c \in {1, 2}, u \in {42, 7}, d \in BOOLEAN }

\* The predicates a caller passes to filter(): the model has one, which
\* accepts an interaction by its payload.
Predicates == {"data"}

ApplyPredicate(f, e) == IF f = "data" THEN e.data ELSE TRUE

\* FilterOptions::default()
DefaultOptions ==
    [filter_limit |-> None, collect_limit |-> None, filter |-> None,
     channel_id |-> None, guild_id |-> None, author_id |-> None,
     message_id |-> None]

LimitValues == 0..MaxLimit

(* ------------------------------------------------------------------ *)
(* tokio::sync::mpsc unbounded channel, as the collector uses it      *)
(* ------------------------------------------------------------------ *)

\* UnboundedSender::is_closed(): the receiving half was closed or dropped.
IsClosed(closed) == closed

\* UnboundedSender::send(v): Err when the receiving half is closed,
\* otherwise v is appended to the queue.
Send(q, closed, v) ==
    IF IsClosed(closed)
    THEN [ok |-> FALSE, queue |-> q]
    ELSE [ok |-> TRUE, queue |-> Append(q, v)]

\* Fault: close() flips the closed flag, so a second close reopens.
Close_Toggles(closed) == ~closed

\* UnboundedReceiver::close(): marks the channel closed, keeps what is queued.
Close(closed) == TRUE

\* Fault: poll_recv reports the end whenever the queue is empty.
PollRecv_EndWhenEmpty(q, closed, senderGone) ==
    IF q # << >>
    THEN [poll |-> "item", item |-> Some(Head(q)), queue |-> Tail(q)]
    ELSE [poll |-> "end", item |-> None, queue |-> q]

\* Fault: poll_recv reports the end as soon as the channel is closed or the
\* sender is gone, without draining what is queued.
PollRecv_EndBeforeDrain(q, closed, senderGone) ==
    IF closed \/ senderGone
    THEN [poll |-> "end", item |-> None, queue |-> q]
    ELSE IF q # << >>
         THEN [poll |-> "item", item |-> Some(Head(q)), queue |-> Tail(q)]
         ELSE [poll |-> "pending", item |-> None, queue |-> q]

\* Fault: poll_recv hands out the newest queued value instead of the oldest.
PollRecv_Newest(q, closed, senderGone) ==
    IF q # << >>
    THEN [poll |-> "item", item |-> Some(q[Len(q)]), queue |-> SubSeq(q, 1, Len(q) - 1)]
    ELSE IF closed \/ senderGone
         THEN [poll |-> "end", item |-> None, queue |-> q]
         ELSE [poll |-> "pending", item |-> None, queue |-> q]

\* UnboundedReceiver::poll_recv(): the oldest queued value; None once the
\* queue is empty and the channel is closed or every sender is gone;
\* otherwise Pending.
PollRecv(q, closed, senderGone) ==
    IF q # << >>
    THEN [poll |-> "item", item |-> Some(Head(q)), queue |-> Tail(q)]
    ELSE IF closed \/ senderGone
         THEN [poll |-> "end", item |-> None, queue |-> q]
         ELSE [poll |-> "pending", item |-> None, queue |-> q]

(* ------------------------------------------------------------------ *)
(* ModalInteractionFilter                                             *)
(* ------------------------------------------------------------------ *)

\* Fault: a configured guild_id accepts an interaction without guild.
IsPassingConstraints_AbsentGuildPasses(o, e) ==
    /\ (o.guild_id = None \/ e.guild_id = None \/ o.guild_id = e.guild_id)
    /\ (o.message_id = None \/ o.message_id = e.message)
    /\ (o.channel_id = None \/ o.channel_id[1] = e.channel_id)
    /\ (o.author_id = None \/ o.author_id[1] = e.user)
    /\ (o.filter = None \/ ApplyPredicate(o.filter[1], e))

\* Fault: author_id is not compared.
IsPassingConstraints_IgnoresAuthor(o, e) ==
    /\ (o.guild_id = None \/ o.guild_id = e.guild_id)
    /\ (o.message_id = None \/ o.message_id = e.message)
    /\ (o.channel_id = None \/ o.channel_id[1] = e.channel_id)
    /\ (o.filter = None \/ ApplyPredicate(o.filter[1], e))

\* ModalInteractionFilter::is_passing_constraints
IsPassingConstraints(o, e) ==
    /\ (o.guild_id = None \/ o.guild_id = e.guild_id)
    /\ (o.message_id = None \/ o.message_id = e.message)
    /\ (o.channel_id = None \/ o.channel_id[1] = e.channel_id)
    /\ (o.author_id = None \/ o.author_id[1] = e.user)
    /\ (o.filter = None \/ ApplyPredicate(o.filter[1], e))

\* Fault: the predicate is evaluated before the identity constraints.
PredicateInvoked_First(o, e) == o.filter # None

\* Whether is_passing_constraints calls the caller's predicate on e: the
\* predicate is the last operand of the && chain, reached only when the
\* four operands before it are true.
PredicateInvoked(o, e) ==
    /\ (o.guild_id = None \/ o.guild_id = e.guild_id)
    /\ (o.message_id = None \/ o.message_id = e.message)
    /\ (o.channel_id = None \/ o.channel_id[1] = e.channel_id)
    /\ (o.author_id = None \/ o.author_id[1] = e.user)
    /\ o.filter # None

\* Fault: the limits are inclusive bounds.
IsWithinLimits_Inclusive(o, f, c) ==
    /\ (o.filter_limit = None \/ f <= o.filter_limit[1])
    /\ (o.collect_limit = None \/ c <= o.collect_limit[1])

\* ModalInteractionFilter::is_within_limits
IsWithinLimits(o, f, c) ==
    /\ (o.filter_limit = None \/ f < o.filter_limit[1])
    /\ (o.collect_limit = None \/ c < o.collect_limit[1])

\* Fault: send_interaction returns without looking at is_closed().
SendInteraction_IgnoresClosed(o, f, c, q, closedS, closedR, e) ==
    IF IsPassingConstraints(o, e)
    THEN LET s == Send(q, closedS, e) IN
         IF ~s.ok
         THEN [filtered |-> f, collected |-> c + 1, queue |-> s.queue, ret |-> FALSE]
         ELSE [filtered |-> f + 1, collected |-> c + 1, queue |-> s.queue,
               ret |-> IsWithinLimits(o, f + 1, c + 1)]
    ELSE [filtered |-> f + 1, collected |-> c, queue |-> q,
          ret |-> IsWithinLimits(o, f + 1, c)]

\* Fault: filtered is incremented before the send is attempted.
SendInteraction_CountsBeforeSend(o, f, c, q, closedS, closedR, e) ==
    IF IsPassingConstraints(o, e)
    THEN LET s == Send(q, closedS, e) IN
         IF ~s.ok
         THEN [filtered |-> f + 1, collected |-> c + 1, queue |-> s.queue, ret |-> FALSE]
         ELSE [filtered |-> f + 1, collected |-> c + 1, queue |-> s.queue,
               ret |-> IsWithinLimits(o, f + 1, c + 1) /\ ~IsClosed(closedR)]
    ELSE [filtered |-> f + 1, collected |-> c, queue |-> q,
          ret |-> IsWithinLimits(o, f + 1, c) /\ ~IsClosed(closedR)]

\* Fault: filtered counts only the interactions that were rejected.
SendInteraction_CountsRejected(o, f, c, q, closedS, closedR, e) ==
    IF IsPassingConstraints(o, e)
    THEN LET s == Send(q, closedS, e) IN
         IF ~s.ok
         THEN [filtered |-> f, collected |-> c + 1, queue |-> s.queue, ret |-> FALSE]
         ELSE [filtered |-> f, collected |-> c + 1, queue |-> s.queue,
               ret |-> IsWithinLimits(o, f, c + 1) /\ ~IsClosed(closedR)]
    ELSE [filtered |-> f + 1, collected |-> c, queue |-> q,
          ret |-> IsWithinLimits(o, f + 1, c) /\ ~IsClosed(closedR)]

\* ModalInteractionFilter::send_interaction on a filter with counters f
\* (filtered) and c (collected) and options o, over a channel holding q:
\* the counters and queue it leaves and the value it returns.  closedS is
\* whether the receiving half is closed when send() runs, closedR whether
\* it is closed when is_closed() runs at the return (the collector may be
\* stopped by the consumer's task in between).
SendInteraction(o, f, c, q, closedS, closedR, e) ==
    IF IsPassingConstraints(o, e)
    THEN LET s == Send(q, closedS, e) IN
         IF ~s.ok
         THEN [filtered |-> f, collected |-> c + 1, queue |-> s.queue, ret |-> FALSE]
         ELSE [filtered |-> f + 1, collected |-> c + 1, queue |-> s.queue,
               ret |-> IsWithinLimits(o, f + 1, c + 1) /\ ~IsClosed(closedR)]
    ELSE [filtered |-> f + 1, collected |-> c, queue |-> q,
          ret |-> IsWithinLimits(o, f + 1, c) /\ ~IsClosed(closedR)]

\* ModalInteractionFilter::new: zeroed counters over a fresh open channel.
NewFilter == [filtered |-> 0, collected |-> 0, queue |-> << >>, closed |-> FALSE]

(* ------------------------------------------------------------------ *)
(* ModalInteractionCollector                                          *)
(* ------------------------------------------------------------------ *)

\* Fault: poll_next never polls the timer.
PollNext_IgnoresTimer(t, q, closed, senderGone) == PollRecv(q, closed, senderGone)

\* Fault: poll_next polls the receiver before the timer.
PollNext_ReceiverFirst(t, q, closed, senderGone) ==
    IF q # << >>
    THEN PollRecv(q, closed, senderGone)
    ELSE IF t = "elapsed"
         THEN [poll |-> "end", item |-> None, queue |-> q]
         ELSE PollRecv(q, closed, senderGone)

\* Stream::poll_next: the timer is polled first; an elapsed timer ends the
\* stream whatever is queued, otherwise the receiver is polled.
PollNext(t, q, closed, senderGone) ==
    IF t = "elapsed"
    THEN [poll |-> "end", item |-> None, queue |-> q]
    ELSE PollRecv(q, closed, senderGone)

(* ------------------------------------------------------------------ *)
(* State                                                              *)
(* ------------------------------------------------------------------ *)

VARIABLES
    mode,       \* builder shape: "stream" (ModalInteractionCollectorBuilder)
                \* or "single" (CollectModalInteraction)
    options,    \* the staged FilterOptions, moved into the filter on first poll
    timeout,    \* the Sleep: "none", "armed" (deadline ahead), "elapsed"
    fut,        \* the builder's fut: "none", "running", "done"
    output,     \* what the builder resolved to in single mode: None / Some(e)
    registered, \* calls of set_modal_interaction_filter
    gate,       \* the filter at the shard: "none", "registered", "removed"
    filtered,   \* ModalInteractionFilter.filtered
    collected,  \* ModalInteractionFilter.collected
    queue,      \* values in the channel
    closed,     \* the receiving half was closed
    collector,  \* "none", "live", "stopped" (stop()), "dropped"
    yielded,    \* items poll_next has returned, in order
    lastPoll,   \* result of the latest poll_next: "none","pending","item","end"
    offered,    \* interactions passed to send_interaction, in order
    sent,       \* interactions the channel accepted, in order
    lastRet,    \* value the latest send_interaction returned
    invoked,    \* interactions the caller's predicate was called with, in order
    timerAtPoll \* the Sleep as the builder's first poll found it; "unpolled" before

vars == << mode, options, timeout, fut, output, registered, gate, filtered,
           collected, queue, closed, collector, yielded, lastPoll, offered,
           sent, lastRet, invoked, timerAtPoll >>

builderVars == << mode, options, timeout, fut, output, registered, timerAtPoll >>
gateVars == << gate, filtered, collected, offered, sent, lastRet, invoked >>
pullVars == << yielded, lastPoll >>

\* The builder as new() leaves it, of either shape.
Init ==
    /\ mode \in {"stream", "single"}
    /\ options = DefaultOptions
    /\ timeout = "none"
    /\ fut = "none"
    /\ output = None
    /\ registered = 0
    /\ gate = "none"
    /\ filtered = 0
    /\ collected = 0
    /\ queue = << >>
    /\ closed = FALSE
    /\ collector = "none"
    /\ yielded = << >>
    /\ lastPoll = "none"
    /\ offered = << >>
    /\ sent = << >>
    /\ lastRet = TRUE
    /\ invoked = << >>
    /\ timerAtPoll = "unpolled"

(* ------------------------------------------------------------------ *)
(* Builder setters (impl_modal_interaction_collector!)                *)
(* ------------------------------------------------------------------ *)

\* Values the model passes to the identity setters.
AuthorIds == {42}
GuildIds == {1}
MessageIds == {1}
ChannelIds == {1}

\* The setters take the builder by value: they run before it is polled.
Configurable == fut = "none"

SetOption(field, value) ==
    /\ Configurable
    /\ options' = [options EXCEPT ![field] = value]
    /\ UNCHANGED << mode, timeout, fut, output, registered, timerAtPoll >>
    /\ UNCHANGED << gateVars, pullVars, queue, closed, collector >>

FilterLimit(n) == SetOption("filter_limit", Some(n))

CollectLimit(n) == SetOption("collect_limit", Some(n))

Filter(p) == SetOption("filter", Some(p))

AuthorId(id) == SetOption("author_id", Some(id))

MessageId(id) == SetOption("message_id", Some(id))

GuildId(id) == SetOption("guild_id", Some(id))

ChannelId(id) == SetOption("channel_id", Some(id))

\* timeout(duration): the Sleep is created here, with its deadline.
Timeout ==
    /\ Configurable
    /\ timeout' = "armed"
    /\ UNCHANGED << mode, options, fut, output, registered, timerAtPoll >>
    /\ UNCHANGED << gateVars, pullVars, queue, closed, collector >>

\* Fault: the countdown starts when the builder is first polled.
TimerFire_StartsAtFirstPoll ==
    /\ fut # "none"
    /\ timeout = "armed"
    /\ timeout' = "elapsed"
    /\ UNCHANGED << mode, options, fut, output, registered, timerAtPoll >>
    /\ UNCHANGED << gateVars, pullVars, queue, closed, collector >>

\* The deadline of the Sleep passes: the Sleep counts from the call of
\* timeout(duration), whether or not the builder has been polled.
TimerFire ==
    /\ timeout = "armed"
    /\ timeout' = "elapsed"
    /\ UNCHANGED << mode, options, fut, output, registered, timerAtPoll >>
    /\ UNCHANGED << gateVars, pullVars, queue, closed, collector >>

(* ------------------------------------------------------------------ *)
(* Driving the builders                                               *)
(* ------------------------------------------------------------------ *)

\* shard_messenger.set_modal_interaction_filter(filter): the filter made
\* by ModalInteractionFilter::new is handed to the shard.
Register ==
    /\ registered' = registered + 1
    /\ gate' = "registered"
    /\ filtered' = NewFilter.filtered
    /\ collected' = NewFilter.collected

\* Future::poll of ModalInteractionCollectorBuilder.  The first poll takes
\* the staged options and timer, registers the filter and resolves to the
\* collector at once (the async block has no await).  The future is
\* consumed by the await that polls it, so it is polled once.
PollBuilder ==
    /\ mode = "stream"
    /\ fut = "none"
    /\ Register
    /\ queue' = NewFilter.queue
    /\ closed' = NewFilter.closed
    /\ collector' = "live"
    /\ fut' = "done"
    /\ timerAtPoll' = timeout
    /\ UNCHANGED << mode, options, timeout, output, pullVars, offered, sent, lastRet, invoked >>

\* Drop for ModalInteractionCollector, then the drop of its receiver:
\* the channel is closed and what is still queued is freed.
DropReceiver ==
    /\ closed' = Close(closed)
    /\ queue' = << >>

\* Fault: the collector outlives the resolution of the inner future.
AwaitNext_KeepsCollector(q, isClosed, senderGone) ==
    LET r == PollNext(timeout, q, isClosed, senderGone) IN
    /\ lastPoll' = r.poll
    /\ collector' = "live"
    /\ queue' = r.queue
    /\ closed' = isClosed
    /\ IF r.poll = "pending"
       THEN /\ fut' = "running"
            /\ UNCHANGED << output, yielded >>
       ELSE /\ fut' = "done"
            /\ output' = r.item
            /\ yielded' = IF r.poll = "item" THEN Append(yielded, r.item[1]) ELSE yielded

\* The inner future of CollectModalInteraction after registration:
\* collector.next().await, then the collector goes out of scope.
AwaitNext(q, isClosed, senderGone) ==
    LET r == PollNext(timeout, q, isClosed, senderGone) IN
    /\ lastPoll' = r.poll
    /\ IF r.poll = "pending"
       THEN /\ fut' = "running"
            /\ collector' = "live"
            /\ queue' = r.queue
            /\ closed' = isClosed
            /\ UNCHANGED << output, yielded >>
       ELSE /\ fut' = "done"
            /\ output' = r.item
            /\ yielded' = IF r.poll = "item" THEN Append(yielded, r.item[1]) ELSE yielded
            /\ collector' = "dropped"
            /\ DropReceiver

\* Future::poll of CollectModalInteraction, first poll: as PollBuilder,
\* and the new collector is polled for its first item in the same poll.
PollCollectFirst ==
    /\ mode = "single"
    /\ fut = "none"
    /\ Register
    /\ AwaitNext(NewFilter.queue, NewFilter.closed, FALSE)
    /\ timerAtPoll' = timeout
    /\ UNCHANGED << mode, options, timeout, offered, sent, lastRet, invoked >>

\* Fault: a later poll does not see that fut is Some and registers again.
PollCollectAgain_Reregisters ==
    /\ mode = "single"
    /\ fut = "running"
    /\ Register
    /\ AwaitNext(queue, closed, FALSE)
    /\ UNCHANGED << mode, options, timeout, offered, sent, lastRet, invoked, timerAtPoll >>

\* Future::poll of CollectModalInteraction, later polls: fut is Some, only
\* the inner future is polled.
PollCollectAgain ==
    /\ mode = "single"
    /\ fut = "running"
    /\ AwaitNext(queue, closed, gate = "removed")
    /\ UNCHANGED << mode, options, timeout, registered, timerAtPoll, gateVars >>

\* The pending CollectModalInteraction is dropped by its caller
\* (cancellation); the collector inside it is dropped with it.
DropCollect ==
    /\ mode = "single"
    /\ fut = "running"
    /\ fut' = "dropped"
    /\ collector' = "dropped"
    /\ DropReceiver
    /\ UNCHANGED << mode, options, timeout, output, registered, timerAtPoll, gateVars, pullVars >>

(* ------------------------------------------------------------------ *)
(* The collector in the caller's hands (stream shape)                 *)
(* ------------------------------------------------------------------ *)

\* Stream::poll_next on the collector.
Pull ==
    /\ mode = "stream"
    /\ collector = "live"
    /\ LET r == PollNext(timeout, queue, closed, gate = "removed") IN
       /\ lastPoll' = r.poll
       /\ queue' = r.queue
       /\ yielded' = IF r.poll = "item" THEN Append(yielded, r.item[1]) ELSE yielded
    /\ UNCHANGED << builderVars, gateVars, closed, collector >>

\* ModalInteractionCollector::stop(self): close, then self is dropped,
\* which closes again and drops the receiver.
Stop ==
    /\ mode = "stream"
    /\ collector = "live"
    /\ collector' = "stopped"
    /\ closed' = Close(Close(closed))
    /\ queue' = << >>
    /\ UNCHANGED << builderVars, gateVars, pullVars >>

\* The collector goes out of scope without stop().
DropCollector ==
    /\ mode = "stream"
    /\ collector = "live"
    /\ collector' = "dropped"
    /\ DropReceiver
    /\ UNCHANGED << builderVars, gateVars, pullVars >>

(* ------------------------------------------------------------------ *)
(* The shard runner (dispatcher)                                      *)
(* ------------------------------------------------------------------ *)

\* The shard offers interaction e to the registered filter and keeps the
\* filter only if send_interaction returns true; a removed filter is
\* dropped, and its sender with it.  r is what send_interaction leaves.
Offer(e, r, max) ==
    /\ gate = "registered"
    /\ Len(offered) < max
    /\ filtered' = r.filtered
    /\ collected' = r.collected
    /\ lastRet' = r.ret
    /\ sent' = IF r.queue # queue THEN Append(sent, e) ELSE sent
    /\ gate' = IF r.ret THEN "registered" ELSE "removed"
    /\ offered' = Append(offered, e)
    /\ invoked' = IF PredicateInvoked(options, e) THEN Append(invoked, e) ELSE invoked

\* An interaction is dispatched while the consumer does nothing.
Dispatch(e) ==
    LET r == SendInteraction(options, filtered, collected, queue, closed, closed, e) IN
    /\ Offer(e, r, MaxEvents)
    /\ queue' = r.queue
    /\ UNCHANGED << builderVars, pullVars, closed, collector >>

\* An interaction is dispatched while the consumer stops the collector:
\* stop() runs between the send and the is_closed() of send_interaction.
DispatchDuringStop(e) ==
    LET r == SendInteraction(options, filtered, collected, queue, closed, TRUE, e) IN
    /\ mode = "stream"
    /\ collector = "live"
    /\ Offer(e, r, MaxEvents)
    /\ collector' = "stopped"
    /\ closed' = Close(Close(closed))
    /\ queue' = << >>
    /\ UNCHANGED << builderVars, pullVars >>

(* ------------------------------------------------------------------ *)
(* Specification of the whole protocol                                *)
(* ------------------------------------------------------------------ *)

Next ==
    \/ \E n \in LimitValues : FilterLimit(n)
    \/ \E n \in LimitValues : CollectLimit(n)
    \/ \E p \in Predicates : Filter(p)
    \/ \E id \in AuthorIds : AuthorId(id)
    \/ \E id \in MessageIds : MessageId(id)
    \/ \E id \in GuildIds : GuildId(id)
    \/ \E id \in ChannelIds : ChannelId(id)
    \/ Timeout
    \/ TimerFire
    \/ PollBuilder
    \/ PollCollectFirst
    \/ PollCollectAgain
    \/ DropCollect
    \/ Pull
    \/ Stop
    \/ DropCollector
    \/ \E e \in Events : Dispatch(e)
    \/ \E e \in Events : DispatchDuringStop(e)

Spec == Init /\ [][Next]_vars

(* ------------------------------------------------------------------ *)
(* Specification of the filter over every combination of fields       *)
(* ------------------------------------------------------------------ *)

\* Limits given to the filters of SpecMatch.
MatchLimits == {None, Some(0), Some(1)}

\* The FilterOptions the setters can stage, for SpecMatch.
AllOptions ==
    { [filter_limit |-> fl, collect_limit |-> cl, filter |-> p,
       channel_id |-> c, guild_id |-> g, author_id |-> a, message_id |-> m] :
        fl \in MatchLimits, cl \in MatchLimits,
        p \in {None} \cup {Some(x) : x \in Predicates},
        c \in {None} \cup {Some(x) : x \in ChannelIds},
        g \in {None} \cup {Some(x) : x \in GuildIds},
        a \in {None} \cup {Some(x) : x \in AuthorIds},
        m \in {None} \cup {Some(x) : x \in MessageIds} }

\* A ModalInteractionCollectorBuilder configured with any options and
\* polled: the filter is registered, the collector is live.
InitMatch ==
    /\ mode = "stream"
    /\ options \in AllOptions
    /\ timeout = "none"
    /\ fut = "done"
    /\ output = None
    /\ registered = 1
    /\ gate = "registered"
    /\ filtered = NewFilter.filtered
    /\ collected = NewFilter.collected
    /\ queue = NewFilter.queue
    /\ closed = NewFilter.closed
    /\ collector = "live"
    /\ yielded = << >>
    /\ lastPoll = "none"
    /\ offered = << >>
    /\ sent = << >>
    /\ lastRet = TRUE
    /\ invoked = << >>
    /\ timerAtPoll = "none"

\* Any interaction is dispatched.
DispatchAny(e) ==
    LET r == SendInteraction(options, filtered, collected, queue, closed, closed, e) IN
    /\ Offer(e, r, MaxMatchEvents)
    /\ queue' = r.queue
    /\ UNCHANGED << builderVars, pullVars, closed, collector >>

NextMatch ==
    \/ \E e \in AllEvents : DispatchAny(e)
    \/ Stop

SpecMatch == InitMatch /\ [][NextMatch]_vars

(* ------------------------------------------------------------------ *)
(* Vocabulary of the properties                                       *)
(* ------------------------------------------------------------------ *)

\* The step is a call of send_interaction; CallEvent is its interaction.
OfferStep == Len(offered') = Len(offered) + 1
CallEvent == offered'[Len(offered')]

\* The call put its interaction on the queue / left the queue alone.
Enqueued == sent' = Append(sent, CallEvent)
NotEnqueued == sent' = sent

\* What the documentation asks of an interaction: every configured
\* identity constraint equals the interaction's field (an absent guild or
\* message equals no id) and the predicate, if configured, returns true.
Conforms(o, e) ==
    /\ o.guild_id # None => (e.guild_id # None /\ e.guild_id[1] = o.guild_id[1])
    /\ o.message_id # None => (e.message # None /\ e.message[1] = o.message_id[1])
    /\ o.channel_id # None => e.channel_id = o.channel_id[1]
    /\ o.author_id # None => e.user = o.author_id[1]
    /\ o.filter # None => ApplyPredicate(o.filter[1], e)

IsPrefix(s, t) == Len(s) <= Len(t) /\ SubSeq(t, 1, Len(s)) = s

\* The limit-reaching call: this call brought collected to collect_limit,
\* or filtered to filter_limit.
ReachesLimit ==
    \/ /\ options.collect_limit # None
       /\ collected' # collected
       /\ collected' = options.collect_limit[1]
    \/ /\ options.filter_limit # None
       /\ filtered' # filtered
       /\ filtered' = options.filter_limit[1]

\* A limit is reached in the current state.
LimitReached ==
    \/ options.collect_limit # None /\ collected >= options.collect_limit[1]
    \/ options.filter_limit # None /\ filtered >= options.filter_limit[1]

(* ------------------------------------------------------------------ *)
(* C1                                                                 *)
(* ------------------------------------------------------------------ *)

C2_Original ==
    [][ (OfferStep /\ ReachesLimit) =>
          /\ Conforms(options, CallEvent) => Enqueued
          /\ lastRet' = FALSE
          /\ gate' = "removed" ]_vars

\* C2 amended: the same, for calls made while the receiving half is open.
C2_LimitReachingCall ==
    [][ (OfferStep /\ ReachesLimit /\ ~closed) =>
          /\ Conforms(options, CallEvent) => Enqueued
          /\ lastRet' = FALSE
          /\ gate' = "removed" ]_vars

\* C2 witness: the second conforming interaction reached collect_limit 2
\* with the receiving half open; it was enqueued and the filter removed.
C2_Witness ==
    /\ options.collect_limit = Some(2)
    /\ collected = 2
    /\ Len(sent) = 2
    /\ ~closed
    /\ ~lastRet
    /\ gate = "removed"

(* ------------------------------------------------------------------ *)
(* C3                                                                 *)
(* ------------------------------------------------------------------ *)

\* C3: with the shard removing the filter on false, collected never
\* exceeds collect_limit and filtered never exceeds filter_limit, for any
\* limit a setter can be given.
C3_CountersWithinLimits ==
    /\ options.collect_limit # None => collected <= options.collect_limit[1]
    /\ options.filter_limit # None => filtered <= options.filter_limit[1]

(* ------------------------------------------------------------------ *)
(* C4                                                                 *)
(* ------------------------------------------------------------------ *)

\* C4: once collected has reached collect_limit or filtered has reached
\* filter_limit, the next send_interaction on the filter returns false and
\* does not enqueue its interaction.
C4_NoForwardAfterLimit ==
    [][ (OfferStep /\ LimitReached) => (lastRet' = FALSE /\ NotEnqueued) ]_vars

(* ------------------------------------------------------------------ *)
(* C5                                                                 *)
(* ------------------------------------------------------------------ *)

\* C5: once the timer has elapsed, every poll_next returns the end of the
\* stream, also when interactions are queued and unread; nothing is
\* yielded from then on.
C5_TimeoutPrecedence ==
    [][ (timeout = "elapsed") =>
          /\ yielded' = yielded
          /\ lastPoll' \in {lastPoll, "end"} ]_vars

\* C5 witness: the timer has elapsed, interactions are queued and the
\* live collector's poll_next returned the end of the stream.
C5_Witness ==
    /\ timeout = "elapsed"
    /\ collector = "live"
    /\ queue # << >>
    /\ lastPoll = "end"

(* ------------------------------------------------------------------ *)
(* C6                                                                 *)
(* ------------------------------------------------------------------ *)

\* C6: after the collector was stopped or dropped, every send_interaction
\* on its filter returns false, whether or not the interaction conforms,
\* and nothing is added to the queue.
C6_StopImmediacy ==
    [][ (collector \in {"stopped", "dropped"}) =>
          /\ OfferStep => lastRet' = FALSE
          /\ NotEnqueued
          /\ queue' = queue ]_vars

\* C6 witness: a conforming interaction was offered after stop(): it was
\* counted as collected, not enqueued, and the filter was removed.
C6_Witness ==
    /\ collector = "stopped"
    /\ Len(offered) = 1
    /\ collected = 1
    /\ sent = << >>
    /\ ~lastRet
    /\ gate = "removed"

(* ------------------------------------------------------------------ *)
(* C7                                                                 *)
(* ------------------------------------------------------------------ *)

\* C7: for both builder shapes the filter is registered zero times while
\* the builder is being configured, once by its first poll and never again
\* by a later poll; no interaction is offered to a filter before the first
\* poll.
C7_RegistrationLaziness ==
    /\ fut = "none" => (registered = 0 /\ gate = "none" /\ offered = << >>)
    /\ fut # "none" => registered = 1

\* C7 witness: a CollectModalInteraction resolved to an interaction, which
\* takes its first poll, an offer and a later poll.
C7_Witness ==
    /\ mode = "single"
    /\ fut = "done"
    /\ output # None
    /\ registered = 1

(* ------------------------------------------------------------------ *)
(* C8                                                                 *)
(* ------------------------------------------------------------------ *)

\* The offered interactions that conform to the options, in offer order.
ConformingOffered ==
    LET Test(e) == Conforms(options, e) IN SelectSeq(offered, Test)

\* C8: what the collector has yielded is, in order, a prefix of the
\* interactions the filter accepted, which are in offer order; nothing is
\* reordered, duplicated or yielded without having been offered and
\* accepted.
C8_FifoDelivery ==
    /\ IsPrefix(yielded, sent)
    /\ IsPrefix(sent, ConformingOffered)
    /\ collector = "live" => yielded \o queue = sent

\* C8 witness: three interactions were offered, the middle one was
\* rejected, and the collector yielded the other two in offer order.
C8_Witness ==
    /\ Len(offered) = 3
    /\ Len(yielded) = 2
    /\ yielded[1] = offered[1]
    /\ yielded[2] = offered[3]
    /\ yielded[1] # yielded[2]
    /\ options.filter # None

(* ------------------------------------------------------------------ *)
(* C9                                                                 *)
(* ------------------------------------------------------------------ *)

\* Scenario A: author 42, collect_limit 2, a timeout that does not fire.
OptionsA ==
    [DefaultOptions EXCEPT !.author_id = Some(42), !.collect_limit = Some(2)]

ScenarioA ==
    /\ options = OptionsA
    /\ timeout = "armed"
    /\ mode = "stream"
    /\ collector = "live"
    /\ IsPrefix(offered, << X, Y, Z, W >>)

\* C9: in scenario A the collector yields X then Z and nothing else; Y does
\* not count as collected; collected reaches 2 with Z, whose call returns
\* false, so the filter is removed and W is never offered nor queued.
C9_ScenarioA ==
    ScenarioA =>
      /\ Len(offered) <= 3
      /\ Len(offered) = 1 => (collected = 1 /\ lastRet /\ gate = "registered")
      /\ Len(offered) = 2 => (collected = 1 /\ lastRet /\ gate = "registered")
      /\ Len(offered) = 3 => (collected = 2 /\ ~lastRet /\ gate = "removed")
      /\ yielded \o queue = SubSeq(<< X, Z >>, 1, collected)
      /\ lastPoll = "end" => yielded = << X, Z >>

\* C9 witness: X, Y, Z were offered and the collector yielded X, Z and then
\* the end of the stream.
C9_Witness ==
    /\ ScenarioA
    /\ offered = << X, Y, Z >>
    /\ yielded = << X, Z >>
    /\ lastPoll = "end"

(* ------------------------------------------------------------------ *)
(* C10                                                                *)
(* ------------------------------------------------------------------ *)

\* Scenario B: no constraints, filter_limit 2, no timeout.
OptionsB == [DefaultOptions EXCEPT !.filter_limit = Some(2)]

ScenarioB ==
    /\ options = OptionsB
    /\ timeout = "none"
    /\ mode = "stream"
    /\ collector = "live"

\* C10: in scenario B the first call leaves collected = filtered = 1 and
\* returns true, the second leaves collected = filtered = 2 and returns
\* false; the filter is removed, no third interaction is offered, and the
\* collector yields the two interactions and then the end of the stream.
C10_ScenarioB ==
    ScenarioB =>
      /\ Len(offered) <= 2
      /\ Len(offered) = 1 =>
           (collected = 1 /\ filtered = 1 /\ lastRet /\ gate = "registered")
      /\ Len(offered) = 2 =>
           (collected = 2 /\ filtered = 2 /\ ~lastRet /\ gate = "removed")
      /\ yielded \o queue = offered
      /\ lastPoll = "end" => (Len(offered) = 2 /\ yielded = offered)

\* C10 witness: two interactions were offered and the collector yielded
\* both and then the end of the stream.
C10_Witness ==
    /\ ScenarioB
    /\ Len(offered) = 2
    /\ yielded = offered
    /\ lastPoll = "end"

(* ------------------------------------------------------------------ *)
(* C11                                                                *)
(* ------------------------------------------------------------------ *)

\* C11: once a poll_next has returned the end of the stream, every later
\* poll_next returns the end too and nothing more is yielded, whatever the
\* shard offers afterwards.
C11_ExhaustionTerminal ==
    [][ (lastPoll = "end") => (lastPoll' = "end" /\ yielded' = yielded) ]_vars

\* C11 witness: the stream ended because the filter was removed and the
\* queue drained, with the timer not elapsed and the collector still held.
C11_Witness ==
    /\ collector = "live"
    /\ lastPoll = "end"
    /\ timeout # "elapsed"
    /\ gate = "removed"
    /\ yielded # << >>

(* ------------------------------------------------------------------ *)
(* C12                                                                *)
(* ------------------------------------------------------------------ *)

\* The protocol with its scheduling: the deadline of an armed Sleep
\* passes; the task that awaits the collector (or the pending
\* CollectModalInteraction) is polled again: the Sleep and the receiver
\* hold its waker.
\* Its steps are those of Next with author_id as the only constraint
\* (which interactions are rejected does not bear on how the stream ends).
NextLive ==
    \/ \E n \in LimitValues : FilterLimit(n)
    \/ \E n \in LimitValues : CollectLimit(n)
    \/ \E id \in AuthorIds : AuthorId(id)
    \/ Timeout
    \/ TimerFire
    \/ PollBuilder
    \/ PollCollectFirst
    \/ PollCollectAgain
    \/ DropCollect
    \/ Pull
    \/ Stop
    \/ DropCollector
    \/ \E e \in Events : Dispatch(e)
    \/ \E e \in Events : DispatchDuringStop(e)

SpecLive ==
    /\ Init
    /\ [][NextLive]_vars
    /\ WF_vars(TimerFire)
    /\ WF_vars(Pull)
    /\ WF_vars(PollCollectAgain)

\* C12: with a timeout configured the stream is finite: a live collector
\* that keeps being polled eventually returns the end of the stream (or
\* is stopped or dropped before), also when the filter stays registered,
\* no limit is set and nothing is offered.
C12_TimeoutEndsStream ==
    (collector = "live" /\ timeout # "none")
        ~> (lastPoll = "end" \/ collector \in {"stopped", "dropped"})

\* C12 witness: no limit, nothing offered, the filter still registered,
\* and the live collector returned the end of the stream.
C12_Witness ==
    /\ options.filter_limit = None
    /\ options.collect_limit = None
    /\ offered = << >>
    /\ gate = "registered"
    /\ collector = "live"
    /\ timeout = "elapsed"
    /\ lastPoll = "end"

(* ------------------------------------------------------------------ *)
(* C13                                                                *)
(* ------------------------------------------------------------------ *)

\* C13: a CollectModalInteraction registers the filter once and takes one
\* item from its collector: it resolves to the first interaction the
\* filter accepted, or to None when the stream ended first (the timer
\* elapsed, or the filter was removed with nothing accepted); never to a
\* later accepted interaction.
C13_SingleEvent ==
    mode = "single" =>
      /\ Len(yielded) <= 1
      /\ fut # "done" => (output = None /\ yielded = << >>)
      /\ fut = "done" =>
           /\ registered = 1
           /\ output # None => (sent # << >> /\ output = Some(sent[1])
                                 /\ yielded = << sent[1] >>)
           /\ output = None =>
                /\ yielded = << >>
                /\ lastPoll = "end"
                /\ timeout = "elapsed" \/ (sent = << >> /\ gate = "removed")

\* C13 witness: two interactions were accepted before the second poll and
\* the builder resolved to the first of them.
C13_Witness ==
    /\ mode = "single"
    /\ fut = "done"
    /\ Len(sent) = 2
    /\ sent[1] # sent[2]
    /\ output = Some(sent[1])

(* ------------------------------------------------------------------ *)
(* C14                                                                *)
(* ------------------------------------------------------------------ *)

\* C14: closing the receiving half twice (stop(), then the close of Drop)
\* leaves the channel as one close of an open channel leaves it, and the
\* filter's next send_interaction fails in both cases: it returns false,
\* enqueues nothing, and the filter is removed.
C14_StopIdempotent ==
    /\ [](collector \in {"stopped", "dropped"} =>
            (closed = Close(FALSE) /\ queue = << >>))
    /\ [][ (collector \in {"stopped", "dropped"} /\ OfferStep) =>
             (lastRet' = FALSE /\ NotEnqueued /\ gate' = "removed") ]_vars

\* C14 witness: after stop() a rejected interaction was offered: it was
\* counted as filtered, the call returned false and the filter was removed.
C14_Witness ==
    /\ collector = "stopped"
    /\ closed
    /\ Len(offered) = 1
    /\ filtered = 1
    /\ collected = 0
    /\ ~lastRet
    /\ gate = "removed"

(* ------------------------------------------------------------------ *)
(* C15                                                                *)
(* ------------------------------------------------------------------ *)

\* C15: when a conforming interaction is offered and the receiving half
\* is closed or dropped, send_interaction returns false at once: collected
\* has been incremented, filtered is unchanged, nothing is enqueued, so
\* collected exceeds the number of interactions enqueued.
C15_DeadConsumerPath ==
    [][ (OfferStep /\ closed /\ Conforms(options, CallEvent)) =>
          /\ lastRet' = FALSE
          /\ filtered' = filtered
          /\ collected' = collected + 1
          /\ NotEnqueued
          /\ queue' = queue
          /\ collected' > Len(sent') ]_vars

\* C15 witness: one interaction was accepted, the collector was dropped,
\* and a second conforming interaction was offered: collected is 2 with
\* one interaction enqueued, filtered is 1.
C15_Witness ==
    /\ collector = "dropped"
    /\ Len(offered) = 2
    /\ Len(sent) = 1
    /\ collected = 2
    /\ filtered = 1
    /\ ~lastRet

(* ------------------------------------------------------------------ *)
(* C16                                                                *)
(* ------------------------------------------------------------------ *)

\* C16: while the receiving half is open every send_interaction adds 1 to
\* filtered, adds 1 to collected if the interaction conforms and 0
\* otherwise, and a rejected interaction adds nothing to the queue (a
\* stop() running during the call may free it); the counters start at 0 and never decrease, so after n offers filtered = n
\* and collected = the number of conforming interactions among them.
C16_CounterAccounting ==
    /\ [](~closed =>
            /\ filtered = Len(offered)
            /\ collected = Len(ConformingOffered))
    /\ [][ (OfferStep /\ ~closed) =>
             /\ filtered' = filtered + 1
             /\ collected' = collected + (IF Conforms(options, CallEvent) THEN 1 ELSE 0)
             /\ ~Conforms(options, CallEvent) =>
                  (NotEnqueued /\ queue' \in {queue, << >>}) ]_vars
    /\ [][ filtered' >= filtered /\ collected' >= collected ]_vars

\* C16 witness: three interactions were offered with the receiving half
\* open, one of them conforming: filtered is 3 and collected is 1.
C16_Witness ==
    /\ ~closed
    /\ collector = "live"
    /\ Len(offered) = 3
    /\ Len(ConformingOffered) = 1
    /\ filtered = 3
    /\ collected = 1

(* ------------------------------------------------------------------ *)
(* C17                                                                *)
(* ------------------------------------------------------------------ *)

\* Every configured identity constraint equals the interaction's field.
IdentityHolds(o, e) ==
    /\ o.guild_id # None => (e.guild_id # None /\ e.guild_id[1] = o.guild_id[1])
    /\ o.message_id # None => (e.message # None /\ e.message[1] = o.message_id[1])
    /\ o.channel_id # None => e.channel_id = o.channel_id[1]
    /\ o.author_id # None => e.user = o.author_id[1]

\* C17: the caller's predicate is called for an offered interaction only
\* when every configured identity constraint holds for it; an interaction
\* failing one of them never reaches the predicate.
C17_PredicateAfterIdentity ==
    /\ [](\A i \in 1..Len(invoked) : IdentityHolds(options, invoked[i]))
    /\ [][ (OfferStep /\ ~IdentityHolds(options, CallEvent)) =>
             invoked' = invoked ]_vars

\* C17 witness: with the four identity constraints and a predicate
\* configured, the predicate was called on an interaction that meets the
\* identity constraints, and rejected it.
C17_Witness ==
    /\ options.guild_id # None /\ options.message_id # None
    /\ options.channel_id # None /\ options.author_id # None
    /\ options.filter # None
    /\ Len(invoked) = 1
    /\ offered = invoked
    /\ sent = << >>
    /\ ~closed

(* ------------------------------------------------------------------ *)
(* C18                                                                *)
(* ------------------------------------------------------------------ *)

\* The filter was removed from the shard and dropped, the collector is
\* in the caller's hands and its timer has not fired.
Deregistered ==
    /\ mode = "stream"
    /\ collector = "live"
    /\ gate = "removed"
    /\ timeout # "elapsed"

\* C18: removing the filter loses no backlog.  After the removal, with
\* the timer not fired, a poll_next of the live collector yields the
\* oldest queued interaction while the queue is not empty, and returns
\* the end of the stream only from an empty queue; when the end is
\* returned the caller has been handed every enqueued interaction, in
\* order; and a collector without timer that keeps being polled reaches
\* that end (or is stopped or dropped before).
C18_BacklogSurvivesDeregistration ==
    /\ [][ (Deregistered /\ (lastPoll' # lastPoll \/ yielded' # yielded)) =>
             IF queue # << >>
             THEN /\ lastPoll' = "item"
                  /\ yielded' = Append(yielded, Head(queue))
                  /\ queue' = Tail(queue)
             ELSE /\ lastPoll' = "end"
                  /\ yielded' = yielded ]_vars
    /\ []((Deregistered /\ lastPoll = "end") => (queue = << >> /\ yielded = sent))
    /\ (Deregistered /\ timeout = "none")
         ~> (collector # "live" \/ (lastPoll = "end" /\ yielded = sent))

\* C18 witness: the call that reached the limit enqueued its interaction
\* and returned false, so the filter was removed with a backlog; the
\* collector then yielded both enqueued interactions and the end.
C18_Witness ==
    /\ Deregistered
    /\ timeout = "none"
    /\ lastRet = FALSE
    /\ Len(sent) = 2
    /\ offered[Len(offered)] = sent[Len(sent)]
    /\ yielded = sent
    /\ lastPoll = "end"

(* ------------------------------------------------------------------ *)
(* C19                                                                *)
(* ------------------------------------------------------------------ *)

\* C19: the countdown runs from the call of timeout(duration): an armed
\* Sleep elapses whether or not the builder is ever polled.  When it has
\* elapsed before the first poll_next, that poll_next returns the end of
\* the stream; the first poll of a CollectModalInteraction whose Sleep
\* has elapsed registers the filter and resolves to None in that poll.
C19_CountdownStartsAtSetter ==
    /\ (timeout = "armed") ~> (timeout = "elapsed")
    /\ [][ (mode = "stream" /\ timeout = "elapsed" /\ lastPoll = "none"
              /\ lastPoll' # "none") =>
             (lastPoll' = "end" /\ yielded' = yielded) ]_vars
    /\ [][ (mode = "single" /\ fut = "none" /\ timeout = "elapsed"
              /\ fut' # "none") =>
             /\ fut' = "done"
             /\ output' = None
             /\ lastPoll' = "end"
             /\ registered' = 1
             /\ gate' = "registered" ]_vars
    /\ [](timerAtPoll = "elapsed" =>
            /\ yielded = << >>
            /\ mode = "single" => (fut = "done" /\ output = None /\ registered = 1))

\* C19 witness: the Sleep elapsed before the first poll of a
\* CollectModalInteraction; the poll registered the filter, which is
\* still with the shard, and resolved to None.
C19_Witness ==
    /\ mode = "single"
    /\ timerAtPoll = "elapsed"
    /\ fut = "done"
    /\ output = None
    /\ lastPoll = "end"
    /\ registered = 1
    /\ gate = "registered"

(* ------------------------------------------------------------------ *)
(* C20                                                                *)
(* ------------------------------------------------------------------ *)

\* The CollectModalInteraction has resolved.
Resolved == mode = "single" /\ fut = "done"

\* C20: when a CollectModalInteraction resolves, to an interaction or to
\* None, its collector is dropped in the same poll: the receiving half
\* is closed and what is still queued is freed.  From then on nothing
\* more is delivered, so an interaction enqueued after the first one and
\* before the resolution never reaches the caller; and a
\* send_interaction after the resolution enqueues nothing and returns
\* false, whatever the limits, so the filter is removed.
C20_SingleModeDiscardsCollector ==
    /\ [](Resolved =>
            /\ collector = "dropped"
            /\ closed
            /\ queue = << >>
            /\ Len(yielded) <= 1
            /\ output # None => yielded = << sent[1] >>
            /\ output = None => yielded = << >>)
    /\ [][ Resolved => (yielded' = yielded /\ output' = output /\ closed') ]_vars
    /\ [][ (Resolved /\ OfferStep) =>
             (lastRet' = FALSE /\ NotEnqueued /\ gate' = "removed") ]_vars

\* C20 witness: no limit is set; two interactions were enqueued before
\* the resolution, the caller got the first one only, and the offer
\* after the resolution returned false.
C20_Witness ==
    /\ Resolved
    /\ options.filter_limit = None
    /\ options.collect_limit = None
    /\ Len(sent) = 2
    /\ Len(offered) = 3
    /\ output = Some(sent[1])
    /\ yielded = << sent[1] >>
    /\ lastRet = FALSE
    /\ gate = "removed"

====
